---------------------------- MODULE Spec2Model ----------------------------
(***************************************************************************)
(* Word-token extraction, frequency ranking and the rendering fallback     *)
(* chain of src/app.py (the Streamlit comment dashboard).                  *)
(*                                                                         *)
(* A Python str is modelled as a sequence of one-character strings, so     *)
(* that strip / split / replace are computed character by character.       *)
(* A value read from a CSV cell is a record [kind, chars]: kind "str"      *)
(* carries the characters, the other kinds ("none", "nan", "num", "bool")  *)
(* are the non-string values pandas can put in a column.                   *)
(***************************************************************************)
EXTENDS Integers, Sequences, FiniteSets, TLC

VARIABLES
    \* ---- get_words_from_segmented exercised on its own (SpecExtract) ----
    segmented_str,    \* the argument of get_words_from_segmented
    xpc,              \* "input" while the argument is being chosen, "returned" after the call
    xret,             \* what the call produced: [raised, words]
    wf_tokens,        \* the tokens a bracketed argument was written from, in order
    well_formed,      \* TRUE when the argument is such a bracketed list, closed by "]"
    \* ---- one press of the "generate" button in main (Spec) ----
    df,               \* the uploaded table: sequence of [sentiment_label, segmented_words]
    sentiment_option, \* selectbox at line 368
    generate_mode,    \* radio at line 387, reassigned at line 459
    max_words,        \* slider at line 377
    pc,               \* position inside the button handler
    all_words,        \* lines 411-414
    word_freq,        \* Counter(all_words): <<[word, count]>> in first-seen order
    top_10,           \* word_freq.most_common(10), line 424
    log,              \* calls of strategies, their outcomes and the st.* output, in order
    layout,           \* what create_wordcloud_image_manual computed (lines 150-173)
    table,            \* the rows of the TOP20 dataframe of lines 481-483
    exception         \* TRUE when an exception left main

xvars == <<segmented_str, xpc, xret, wf_tokens, well_formed>>
rvars == <<df, sentiment_option, generate_mode, max_words, pc, all_words,
           word_freq, top_10, log, layout, table, exception>>
vars == <<xvars, rvars>>

---------------------------------------------------------------------------
(* Bounds of the model *)

\* longest string handed to get_words_from_segmented in SpecExtract
MaxLen == 4
\* most tokens in a bracketed list written token by token in SpecExtract
MaxTokens == 2
\* most rows in the uploaded table
MaxRecords == 2

---------------------------------------------------------------------------
(* Python str primitives *)

\* characters str.strip / str.split / str.isspace treat as whitespace
Whitespace == {" ", "\t"}

Min2(a, b) == IF a < b THEN a ELSE b

RECURSIVE LStrip(_)
LStrip(s) == IF s # <<>> /\ Head(s) \in Whitespace THEN LStrip(Tail(s)) ELSE s

RECURSIVE RStrip(_)
RStrip(s) ==
    IF s # <<>> /\ s[Len(s)] \in Whitespace THEN RStrip(SubSeq(s, 1, Len(s) - 1)) ELSE s

\* str.strip()
Strip(s) == RStrip(LStrip(s))

\* str.isspace(): non-empty and whitespace only
IsSpace(s) == s # <<>> /\ \A i \in 1..Len(s) : s[i] \in Whitespace

\* str.replace(c, "") for a one-character c
RECURSIVE RemoveChar(_, _)
RemoveChar(s, c) ==
    IF s = <<>> THEN <<>>
    ELSE IF Head(s) = c THEN RemoveChar(Tail(s), c)
    ELSE <<Head(s)>> \o RemoveChar(Tail(s), c)

\* str.split(c): always at least one piece, empty pieces kept
RECURSIVE SplitOn(_, _, _)
SplitOn(s, c, cur) ==
    IF s = <<>> THEN <<cur>>
    ELSE IF Head(s) = c THEN <<cur>> \o SplitOn(Tail(s), c, <<>>)
    ELSE SplitOn(Tail(s), c, Append(cur, Head(s)))

\* str.split(): split on runs of whitespace, no empty pieces
RECURSIVE SplitWs(_, _)
SplitWs(s, cur) ==
    IF s = <<>> THEN (IF cur = <<>> THEN <<>> ELSE <<cur>>)
    ELSE IF Head(s) \in Whitespace
         THEN (IF cur = <<>> THEN <<>> ELSE <<cur>>) \o SplitWs(Tail(s), <<>>)
    ELSE SplitWs(Tail(s), Append(cur, Head(s)))

\* s[1:-1]
Slice1m1(s) == IF Len(s) >= 2 THEN SubSeq(s, 2, Len(s) - 1) ELSE <<>>

\* [f(x) for x in seq]
MapStrip(ws) == [i \in 1..Len(ws) |-> Strip(ws[i])]

---------------------------------------------------------------------------
(* get_words_from_segmented, lines 216-244 *)

\* the list [' ', '', '\\n', '\\t'] of line 237
NoiseMarkers == { <<" ">>, <<>>, <<"\\", "n">>, <<"\\", "t">> }

\* KeepsWord without the test against the list of line 237
KeepsWordNoMarkerTest(word_clean) ==
    /\ Len(word_clean) > 0
    /\ ~IsSpace(word_clean)

\* line 235-237
KeepsWord(word_clean) ==
    /\ Len(word_clean) > 0
    /\ ~IsSpace(word_clean)
    /\ word_clean \notin NoiseMarkers

\* lines 232-238
RECURSIVE FilterWords(_)
FilterWords(words) ==
    IF words = <<>> THEN <<>>
    ELSE LET word_clean == Strip(Head(words))
         IN  (IF KeepsWord(word_clean) THEN <<word_clean>> ELSE <<>>)
             \o FilterWords(Tail(words))

\* IsListFormat without the endswith(']') test
IsListFormatStartOnly(clean_str) ==
    clean_str # <<>> /\ clean_str[1] = "["

\* line 225
IsListFormat(clean_str) ==
    clean_str # <<>> /\ clean_str[1] = "[" /\ clean_str[Len(clean_str)] = "]"

\* SplitWords without the replace('"', '') of line 226
SplitWordsKeepsDoubleQuotes(clean_str) ==
    IF IsListFormat(clean_str)
    THEN LET content == RemoveChar(Slice1m1(clean_str), "'")
         IN  MapStrip(SplitOn(content, ",", <<>>))
    ELSE SplitWs(clean_str, <<>>)

\* lines 225-229
SplitWords(clean_str) ==
    IF IsListFormat(clean_str)
    THEN LET content == RemoveChar(RemoveChar(Slice1m1(clean_str), "'"), "\"")
         IN  MapStrip(SplitOn(content, ",", <<>>))
    ELSE SplitWs(clean_str, <<>>)

\* line 218: pd.isna(x) or not isinstance(x, str)
IsMissing(v) == v.kind \in {"none", "nan"} \/ v.kind # "str"

\* lines 222-240, the body of the try: str methods exist on a str only, on any
\* other value the first of them (line 222) raises AttributeError
TryBody(v) ==
    IF v.kind # "str"
    THEN [exc |-> TRUE, words |-> <<>>]
    ELSE [exc |-> FALSE, words |-> FilterWords(SplitWords(Strip(v.chars)))]

\* lines 242-244: except Exception -> return []
ExceptClause(r) ==
    IF r.exc THEN [raised |-> FALSE, words |-> <<>>]
    ELSE [raised |-> FALSE, words |-> r.words]

\* the whole function: the value returned, and whether an exception left it
GetWordsFromSegmented(v) ==
    IF IsMissing(v)
    THEN [raised |-> FALSE, words |-> <<>>]
    ELSE ExceptClause(TryBody(v))

get_words_from_segmented(v) == GetWordsFromSegmented(v).words

---------------------------------------------------------------------------
(* The arguments get_words_from_segmented is called with (line 412-413: one *)
(* cell of the segmented_words column), and the call                        *)

\* characters a cell is typed from in SpecExtract
Alphabet == {"[", "]", ",", " ", "\t", "'", "\"", "\\", "n", "t"}

\* values of a pandas object column that are not str
NonStringKinds == {"none", "nan", "num", "bool"}

\* tokens a bracketed list is written from: plain words, the empty token, and
\* the two-character texts backslash-n and backslash-t
ListTokens == { <<>>, <<"n">>, <<"t">>, <<"n", "t">>, <<"\\", "n">>, <<"\\", "t">> }

\* how one token is written: bare, or wrapped in single or double quotes
QuoteStyles == { <<>>, <<"'">>, <<"\"">> }

\* the spaces around one written token
Paddings == { <<>>, <<" ">> }

Str(chars) == [kind |-> "str", chars |-> chars]

NotCalled == [raised |-> FALSE, words |-> <<>>]

InitExtractVars ==
    /\ segmented_str = Str(<<>>)
    /\ xpc = "input"
    /\ xret = NotCalled
    /\ wf_tokens = <<>>
    /\ well_formed = FALSE

\* the cell holds one more character
TypeChar(c) ==
    /\ xpc = "input"
    /\ segmented_str.kind = "str"
    /\ Len(segmented_str.chars) < MaxLen
    /\ segmented_str' = Str(Append(segmented_str.chars, c))
    /\ UNCHANGED <<xpc, xret, wf_tokens, well_formed>>

\* the cell is empty in the CSV (NaN), or holds a number or a boolean
PassNonString(k) ==
    /\ xpc = "input"
    /\ segmented_str = Str(<<>>)
    /\ segmented_str' = [kind |-> k, chars |-> <<>>]
    /\ UNCHANGED <<xpc, xret, wf_tokens, well_formed>>

\* the cell is a list written by str(list): "[" ...
OpenList ==
    /\ xpc = "input"
    /\ segmented_str = Str(<<>>)
    /\ segmented_str' = Str(<<"[">>)
    /\ xpc' = "list"
    /\ UNCHANGED <<xret, wf_tokens, well_formed>>

\* ... one more token, after a comma when it is not the first ...
WriteToken(tok, q, pad) ==
    /\ xpc = "list"
    /\ Len(wf_tokens) < MaxTokens
    /\ segmented_str' =
          Str(segmented_str.chars
              \o (IF wf_tokens = <<>> THEN <<>> ELSE <<",">>)
              \o pad \o q \o tok \o q \o pad)
    /\ wf_tokens' = Append(wf_tokens, tok)
    /\ UNCHANGED <<xpc, xret, well_formed>>

\* ... "]"
CloseList ==
    /\ xpc = "list"
    /\ segmented_str' = Str(Append(segmented_str.chars, "]"))
    /\ xpc' = "closed"
    /\ well_formed' = TRUE
    /\ UNCHANGED <<xret, wf_tokens>>

\* words = get_words_from_segmented(seg_text)
CallGetWords ==
    /\ xpc \in {"input", "closed"}
    /\ xret' = GetWordsFromSegmented(segmented_str)
    /\ xpc' = "returned"
    /\ UNCHANGED <<segmented_str, wf_tokens, well_formed>>

---------------------------------------------------------------------------
(* collections.Counter as main uses it: a dict in first-seen order *)

\* the k-th smallest member of a set of numbers
NthSmallest(S, k) == CHOOSE i \in S : Cardinality({j \in S : j < i}) = k - 1

\* Counter(all_words), line 418: one entry per different word, in the order the
\* words are first met, holding the number of times the word occurs
Counter(words) ==
    LET first == SelectSeq([i \in 1..Len(words) |-> i],
                           LAMBDA i : \A j \in 1..(i - 1) : words[j] # words[i])
    IN  [k \in 1..Len(first) |->
           LET w == words[first[k]]
           IN  [word |-> w, count |-> Cardinality({j \in 1..Len(words) : words[j] = w})]]

\* InsertByCount of a sort that is not stable: an item goes before the items of
\* equal count
RECURSIVE InsertBeforeEqual(_, _)
InsertBeforeEqual(sorted, item) ==
    IF sorted = <<>> THEN <<item>>
    ELSE IF Head(sorted).count > item.count
         THEN <<Head(sorted)>> \o InsertBeforeEqual(Tail(sorted), item)
    ELSE <<item>> \o sorted

\* sorted(..., key=count, reverse=True) is stable: an item goes after every
\* item whose count is not smaller
RECURSIVE InsertByCount(_, _)
InsertByCount(sorted, item) ==
    IF sorted = <<>> THEN <<item>>
    ELSE IF Head(sorted).count >= item.count
         THEN <<Head(sorted)>> \o InsertByCount(Tail(sorted), item)
    ELSE <<item>> \o sorted

RECURSIVE SortByCount(_, _)
SortByCount(sorted, items) ==
    IF items = <<>> THEN sorted
    ELSE SortByCount(InsertByCount(sorted, Head(items)), Tail(items))

\* word_freq.most_common(n), lines 194, 424, 481
MostCommon(wf, n) ==
    LET sorted == SortByCount(<<>>, wf)
    IN  SubSeq(sorted, 1, Min2(n, Len(sorted)))

---------------------------------------------------------------------------
(* Program constants *)

\* most_common(10), line 424
Top10 == 10
\* most_common(20), lines 194 and 481
Top20 == 20
\* the slider of line 377: st.slider(..., 30, 150, 80)
SliderMin == 30
SliderDefault == 80
\* create_wordcloud_image_manual(width=1200, height=600), line 136
Width == 1200
Height == 600
\* the grid of lines 168-171
GridCols == 8
\* the sizes of lines 158 and 160
FixedSize == 50
MinSize == 20
SizeSpan == 80

---------------------------------------------------------------------------
(* create_wordcloud_image_manual, lines 136-190 *)

\* list(...)[:max_words]
Prefix(seq, n) == SubSeq(seq, 1, Min2(n, Len(seq)))

RECURSIVE MaxOf(_)
MaxOf(counts) ==
    IF Len(counts) = 1 THEN counts[1]
    ELSE LET m == MaxOf(Tail(counts)) IN IF Head(counts) > m THEN Head(counts) ELSE m

RECURSIVE MinOf(_)
MinOf(counts) ==
    IF Len(counts) = 1 THEN counts[1]
    ELSE LET m == MinOf(Tail(counts)) IN IF Head(counts) < m THEN Head(counts) ELSE m

\* line 160, as the exact fraction num/den
ScaledSize(count, min_count, max_count) ==
    [num |-> MinSize * (max_count - min_count) + SizeSpan * (count - min_count),
     den |-> max_count - min_count]

\* Sizes without the max_count == min_count test of line 157
SizesUnguarded(counts) ==
    LET max_count == MaxOf(counts)
        min_count == MinOf(counts)
    IN  [i \in 1..Len(counts) |-> ScaledSize(counts[i], min_count, max_count)]

\* lines 154-160
Sizes(counts) ==
    LET max_count == MaxOf(counts)
        min_count == MinOf(counts)
    IN  IF max_count = min_count
        THEN [i \in 1..Len(counts) |-> [num |-> FixedSize, den |-> 1]]
        ELSE [i \in 1..Len(counts) |-> ScaledSize(counts[i], min_count, max_count)]

\* lines 166-173 for the word at index i (from 0) of n words; y as a fraction
GridPosition(i, n) ==
    LET row == i \div GridCols
        col == i % GridCols
        rows == n \div GridCols + 1
    IN  [x |-> col * (Width \div GridCols) + Width \div (2 * GridCols),
         y |-> [num |-> 2 * rows * Height - 2 * row * Height - Height,
                den |-> 2 * rows]]

\* lines 150-173: the words placed, with count, size and position
ManualLayout(wf, maxw) ==
    LET words == Prefix([i \in 1..Len(wf) |-> wf[i].word], maxw)
        counts == Prefix([i \in 1..Len(wf) |-> wf[i].count], maxw)
    IN  IF counts = <<>>
        THEN <<>>
        ELSE LET sizes == Sizes(counts)
             IN  [i \in 1..Len(words) |->
                    [word |-> words[i], count |-> counts[i], size |-> sizes[i],
                     pos |-> GridPosition(i - 1, Len(words))]]

---------------------------------------------------------------------------
(* The uploaded table *)

\* values of the sentiment_label column: '积极', '消极', '中性'
Labels == {"pos", "neg", "neu"}

\* the options of the selectbox of line 370:
\* "全部评论", "积极评论", "消极评论", "中性评论"
Options == {"all", "positive", "negative", "neutral"}

\* the options of the radio of line 388: "自动词云", "手动布局"
Modes == {"auto", "manual"}

\* words joined by one space
RECURSIVE JoinSpace(_)
JoinSpace(ws) ==
    IF ws = <<>> THEN <<>>
    ELSE IF Len(ws) = 1 THEN Head(ws)
    ELSE Head(ws) \o <<" ">> \o JoinSpace(Tail(ws))

\* a comment of 31 different one-character words, "n" and "t" last
LongWords ==
    << <<"a">>, <<"b">>, <<"c">>, <<"d">>, <<"e">>, <<"f">>, <<"g">>, <<"h">>,
       <<"i">>, <<"j">>, <<"k">>, <<"l">>, <<"m">>, <<"o">>, <<"p">>, <<"q">>,
       <<"r">>, <<"s">>, <<"u">>, <<"v">>, <<"w">>, <<"x">>, <<"y">>, <<"z">>,
       <<"A">>, <<"B">>, <<"C">>, <<"D">>, <<"E">>, <<"t">>, <<"n">> >>

\* the cells of the segmented_words column the table is made of
Cells ==
    { Str(<<"[", "'", "n", "'", ",", " ", "'", "t", "'", ",", " ", "'", "n", "'", "]">>),
      [kind |-> "nan", chars |-> <<>>],
      Str(JoinSpace(LongWords)) }

Rows == [sentiment_label : Labels, segmented_words : Cells]

RECURSIVE Tables(_)
Tables(n) ==
    IF n = 0 THEN { <<>> }
    ELSE LET shorter == Tables(n - 1)
         IN  shorter \cup { Append(t, r) : t \in { u \in shorter : Len(u) = n - 1 }, r \in Rows }

---------------------------------------------------------------------------
(* main, the handler of the "生成词云" button, lines 392-486 *)

\* df[df['sentiment_label'] == label]
RowsLabelled(rows, label) == SelectSeq(rows, LAMBDA r : r.sentiment_label = label)

\* TargetDf whose last branch forgets the comparison with '中性'
TargetDfNeutralUnfiltered(rows, option) ==
    IF option = "all" THEN rows
    ELSE IF option = "positive" THEN RowsLabelled(rows, "pos")
    ELSE IF option = "negative" THEN RowsLabelled(rows, "neg")
    ELSE rows

\* lines 395-402
TargetDf(rows, option) ==
    IF option = "all" THEN rows
    ELSE IF option = "positive" THEN RowsLabelled(rows, "pos")
    ELSE IF option = "negative" THEN RowsLabelled(rows, "neg")
    ELSE RowsLabelled(rows, "neu")

\* line 413 for every cell a row can hold: get_words_from_segmented(seg_text)
TokensOfCell == [c \in Cells |-> get_words_from_segmented(c)]

\* lines 411-414
RECURSIVE AllWords(_)
AllWords(rows) ==
    IF rows = <<>> THEN <<>>
    ELSE TokensOfCell[Head(rows).segmented_words] \o AllWords(Tail(rows))

NoLayout == <<>>

\* HasWords without the test of line 416
HasWordsAlways(words) == TRUE

\* line 416: if all_words
HasWords(words) == words # <<>>

InitRunVars ==
    /\ sentiment_option = "all"
    /\ generate_mode = "auto"
    /\ max_words = SliderDefault
    /\ pc = "idle"
    /\ all_words = <<>>
    /\ word_freq = <<>>
    /\ top_10 = <<>>
    /\ log = <<>>
    /\ layout = NoLayout
    /\ table = <<>>
    /\ exception = FALSE

\* the button is pressed: lines 393-434, down to the font report (st.success at
\* line 432 or st.warning at line 434, by what get_best_chinese_font returned)
PressGenerate(option, mode, maxw) ==
    /\ pc = "idle"
    /\ sentiment_option' = option
    /\ generate_mode' = mode
    /\ max_words' = maxw
    /\ LET target == TargetDf(df, option)
           words == AllWords(target)
           wf == Counter(words)
       IN  /\ IF Len(target) = 0
              THEN /\ log' = log \o <<"st.warning:no_rows">>
                   /\ pc' = "done"
                   /\ UNCHANGED <<all_words, word_freq, top_10>>
              ELSE /\ all_words' = words
                   /\ IF HasWords(words)
                      THEN /\ word_freq' = wf
                           /\ top_10' = MostCommon(wf, Top10)
                           /\ log' = log \o <<"st.success:extracted", "st.info:top10",
                                              "call:get_best_chinese_font",
                                              "st.font_report">>
                           /\ pc' = "render"
                      ELSE /\ log' = log \o <<"st.warning:no_words">>
                           /\ pc' = "done"
                           /\ UNCHANGED <<word_freq, top_10>>
    /\ UNCHANGED <<df, layout, table, exception>>
    /\ UNCHANGED xvars

\* AutoOutput with the st.error of line 458 outside the else
AutoOutputAlwaysError(ok) ==
    IF ok THEN <<"call:auto", "ok:auto", "st.pyplot:auto", "st.success:auto",
                 "st.error:auto_failed">>
    ELSE <<"call:auto", "fail:auto", "st.error:auto_failed">>

\* lines 446-459: what main reports after create_wordcloud_ultimate returned
AutoOutput(ok) ==
    IF ok THEN <<"call:auto", "ok:auto", "st.pyplot:auto", "st.success:auto">>
    ELSE <<"call:auto", "fail:auto", "st.error:auto_failed">>

\* ModeAfterAuto with line 459 outside the else: reassigned on success too
ModeAfterAutoAlwaysManual(ok) == "manual"

\* ModeAfterAuto without the assignment of line 459
ModeAfterAutoNeverManual(ok) == "auto"

\* generate_mode after lines 446-459: reassigned at line 459 on failure only
ModeAfterAuto(ok) == IF ok THEN "auto" ELSE "manual"

\* lines 437-459: create_wordcloud_ultimate returns a word cloud or None
AutoWordcloud(ok) ==
    /\ pc = "render"
    /\ generate_mode = "auto"
    /\ log' = log \o AutoOutput(ok)
    /\ generate_mode' = ModeAfterAuto(ok)
    /\ pc' = IF ModeAfterAuto(ok) = "manual" THEN "manual" ELSE "table"
    /\ UNCHANGED <<df, sentiment_option, max_words, all_words, word_freq,
                   top_10, layout, table, exception>>
    /\ UNCHANGED xvars

\* lines 462-476: what main reports around create_wordcloud_image_manual
ManualOutput(ok) ==
    IF ok THEN <<"st.info:manual", "call:manual", "ok:manual",
                 "st.pyplot:manual", "st.success:manual">>
    ELSE <<"st.info:manual", "call:manual", "fail:manual",
           "st.error:all_failed", "st.info:bar">>

\* lines 461-476: create_wordcloud_image_manual returns a figure or None
\* (drawn: whether lines 140-147 and 176-186 run without an exception)
ManualGrid(drawn) ==
    /\ pc \in {"render", "manual"}
    /\ generate_mode = "manual"
    /\ LET placed == ManualLayout(word_freq, max_words)
           ok == drawn /\ placed # <<>>
       IN  /\ layout' = IF ok THEN placed ELSE NoLayout
           /\ log' = log \o ManualOutput(ok)
           /\ pc' = IF ok THEN "table" ELSE "bar"
    /\ UNCHANGED <<df, sentiment_option, generate_mode, max_words, all_words,
                   word_freq, top_10, table, exception>>
    /\ UNCHANGED xvars

\* line 477: display_word_frequency, lines 192-214, which main calls outside any try
BarChart(ok) ==
    /\ pc = "bar"
    /\ IF ok
       THEN /\ log' = log \o <<"call:bar", "ok:bar", "st.pyplot:bar">>
            /\ pc' = "table"
            /\ UNCHANGED exception
       ELSE /\ log' = log \o <<"call:bar", "fail:bar">>
            /\ exception' = TRUE
            /\ pc' = "crashed"
    /\ UNCHANGED <<df, sentiment_option, generate_mode, max_words, all_words,
                   word_freq, top_10, layout, table>>
    /\ UNCHANGED xvars

\* lines 479-483
ShowTable ==
    /\ pc = "table"
    /\ table' = MostCommon(word_freq, Top20)
    /\ log' = log \o <<"st.subheader:top20", "st.dataframe:top20">>
    /\ pc' = "done"
    /\ UNCHANGED <<df, sentiment_option, generate_mode, max_words, all_words,
                   word_freq, top_10, layout, exception>>
    /\ UNCHANGED xvars

\* the next interaction reruns the script from the top
Rerun ==
    /\ pc \in {"done", "crashed"}
    /\ sentiment_option' = "all"
    /\ generate_mode' = "auto"
    /\ max_words' = SliderDefault
    /\ pc' = "idle"
    /\ all_words' = <<>>
    /\ word_freq' = <<>>
    /\ top_10' = <<>>
    /\ log' = <<>>
    /\ layout' = NoLayout
    /\ table' = <<>>
    /\ exception' = FALSE
    /\ UNCHANGED df
    /\ UNCHANGED xvars

---------------------------------------------------------------------------
(* Specifications *)

\* one uploaded table, any number of presses of the button
Init ==
    /\ df \in Tables(MaxRecords)
    /\ InitRunVars
    /\ InitExtractVars

Next ==
    \/ \E option \in Options, mode \in Modes, maxw \in {SliderMin, SliderDefault} :
          PressGenerate(option, mode, maxw)
    \/ \E ok \in BOOLEAN : AutoWordcloud(ok)
    \/ \E drawn \in BOOLEAN : ManualGrid(drawn)
    \/ \E ok \in BOOLEAN : BarChart(ok)
    \/ ShowTable
    \/ Rerun

Spec == Init /\ [][Next]_vars

\* main is straight-line code: when line 459 has reassigned generate_mode the
\* test of line 461 runs next, and when create_wordcloud_image_manual has
\* returned None line 477 runs next
SpecFair ==
    /\ Spec
    /\ WF_vars(\E drawn \in BOOLEAN : ManualGrid(drawn))
    /\ WF_vars(\E ok \in BOOLEAN : BarChart(ok))

\* get_words_from_segmented on every argument within the bounds
InitExtract ==
    /\ df = <<>>
    /\ InitRunVars
    /\ InitExtractVars

NextExtract ==
    \/ \E c \in Alphabet : TypeChar(c) /\ UNCHANGED rvars
    \/ \E k \in NonStringKinds : PassNonString(k) /\ UNCHANGED rvars
    \/ OpenList /\ UNCHANGED rvars
    \/ \E tok \in ListTokens, q \in QuoteStyles, pad \in Paddings :
          WriteToken(tok, q, pad) /\ UNCHANGED rvars
    \/ CloseList /\ UNCHANGED rvars
    \/ CallGetWords /\ UNCHANGED rvars

SpecExtract == InitExtract /\ [][NextExtract]_vars

---------------------------------------------------------------------------
(* Claims about get_words_from_segmented, checked under SpecExtract *)

Returned == xpc = "returned"

\* the two-character texts backslash-n and backslash-t
EscapeMarkers == { <<"\\", "n">>, <<"\\", "t">> }

NonEmptyTokens(toks) == SelectSeq(toks, LAMBDA t : t # <<>>)

\* C1 as stated: for every well-formed bracketed token string the result is
\* exactly the sequence of the non-empty tokens, quotes and surrounding
\* whitespace removed, in their original order, duplicates kept.
C1_AllNonEmptyTokens ==
    (Returned /\ well_formed) => xret.words = NonEmptyTokens(wf_tokens)

\* C1, amended: for every well-formed bracketed token string the result is
\* exactly the sequence of the tokens that are non-empty and are not one of the
\* texts backslash-n, backslash-t, in their original order, duplicates kept;
\* no exception leaves the call.
C1_TokensExceptMarkers ==
    (Returned /\ well_formed) =>
        /\ ~xret.raised
        /\ xret.words = SelectSeq(wf_tokens, LAMBDA t : t # <<>> /\ t \notin EscapeMarkers)

\* the list ['nt', "\n" ] of a plain word and a backslash-n token, of which the
\* plain word comes back
C1_Witness ==
    /\ Returned
    /\ well_formed
    /\ wf_tokens = << <<"n", "t">>, <<"\\", "n">> >>
    /\ segmented_str.chars =
         <<"[", "'", "n", "t", "'", ",", " ", "\"", "\\", "n", "\"", " ", "]">>
    /\ xret.words = << <<"n", "t">> >>

\* the text hands a str to the function and, stripped, has exactly one of the
\* opening "[" and the closing "]"
Malformed(v) ==
    /\ v.kind = "str"
    /\ LET t == Strip(v.chars)
       IN  /\ t # <<>>
           /\ (t[1] = "[") # (t[Len(t)] = "]")

\* the maximal runs of non-whitespace characters of s, as <<first, last>>
WordRuns(s) ==
    { r \in (1..Len(s)) \X (1..Len(s)) :
        /\ r[1] <= r[2]
        /\ \A k \in r[1]..r[2] : s[k] \notin Whitespace
        /\ (r[1] = 1 \/ s[r[1] - 1] \in Whitespace)
        /\ (r[2] = Len(s) \/ s[r[2] + 1] \in Whitespace) }

\* the whitespace-delimited pieces of s, left to right
WhitespacePieces(s) ==
    LET runs == WordRuns(s)
        starts == { r[1] : r \in runs }
    IN  [k \in 1..Cardinality(runs) |->
           LET r == CHOOSE q \in runs : q[1] = NthSmallest(starts, k)
           IN  SubSeq(s, r[1], r[2])]

C10_TokensAreClean ==
    Returned =>
        \A i \in 1..Len(xret.words) :
            LET w == xret.words[i]
            IN  /\ w # <<>>
                /\ \E k \in 1..Len(w) : w[k] \notin Whitespace
                /\ w[1] \notin Whitespace
                /\ w[Len(w)] \notin Whitespace
                /\ w \notin EscapeMarkers

\* a text holding backslash-n next to a word: only the word comes back
C10_Witness ==
    /\ Returned
    /\ segmented_str = Str(<<"\\", "n", " ", "t">>)
    /\ xret.words = << <<"t">> >>

---------------------------------------------------------------------------
(* Claims about the button handler, checked under Spec *)

Strategies == {"auto", "manual", "bar"}

CallEvent == [auto |-> "call:auto", manual |-> "call:manual", bar |-> "call:bar"]
OkEvent == [auto |-> "ok:auto", manual |-> "ok:manual", bar |-> "ok:bar"]
FailEvent == [auto |-> "fail:auto", manual |-> "fail:manual", bar |-> "fail:bar"]
PyplotEvent == [auto |-> "st.pyplot:auto", manual |-> "st.pyplot:manual",
                bar |-> "st.pyplot:bar"]
\* the st.success lines 456 and 473; no line reports the bar chart's success
SuccessReport == [auto |-> "st.success:auto", manual |-> "st.success:manual",
                  bar |-> "none"]
\* the st.error lines 458 and 475
ErrorEvents == {"st.error:auto_failed", "st.error:all_failed"}

Image(f) == { f[S] : S \in Strategies }

LogHas(e) == \E i \in 1..Len(log) : log[i] = e

LogOnly(events) == SelectSeq(log, LAMBDA e : e \in events)

\* the strategy S succeeded at position i of the log, as the first to do so, and
\* nothing was invoked after it, and its artifact is the one artifact shown
HaltsAt(i, S) ==
    /\ \A j \in (i + 1)..Len(log) : log[j] \notin Image(CallEvent)
    /\ \A j \in 1..(i - 1) : log[j] \notin Image(OkEvent)
    /\ LogOnly(Image(PyplotEvent)) = <<PyplotEvent[S]>>

C4_AlwaysCompletesWithTable ==
    (pc \in {"done", "crashed"} /\ all_words # <<>>) =>
        /\ ~exception
        /\ pc = "done"
        /\ LogHas("st.dataframe:top20")
        /\ table = MostCommon(word_freq, Top20)

\* the automatic word cloud belongs to the chain of this press
InChain(S) == S = "auto" => (generate_mode = "auto" \/ LogHas("call:auto"))

\* C5 as stated: an error message about a failed strategy is shown only once the
\* whole chain is exhausted: never while a strategy of the chain is untried, never
\* after a strategy has succeeded.
C5_ErrorOnlyWhenExhausted ==
    \A i \in 1..Len(log) :
        log[i] \in ErrorEvents =>
            /\ \A S \in Strategies :
                 InChain(S) => \E j \in 1..(i - 1) : log[j] = CallEvent[S]
            /\ \A j \in 1..(i - 1) : log[j] \notin Image(OkEvent)

\* C5, amended: an error message is shown right after the failure it reports and
\* never after a success: the "automatic failed" message directly after the
\* automatic word cloud returned failure (manual grid and bar chart untried),
\* the "all strategies failed" message directly after the manual grid returned
\* failure, when every word-cloud strategy of the chain has failed and only the
\* bar chart is left to try.
C5_ErrorFollowsItsFailure ==
    \A i \in 1..Len(log) :
        log[i] \in ErrorEvents =>
            /\ i > 1
            /\ log[i] = "st.error:auto_failed" => log[i - 1] = "fail:auto"
            /\ log[i] = "st.error:all_failed" =>
                 /\ log[i - 1] = "fail:manual"
                 /\ InChain("auto") => \E j \in 1..(i - 1) : log[j] = "fail:auto"
                 /\ ~\E j \in 1..(i - 1) : log[j] = "call:bar"
            /\ \A j \in 1..(i - 1) : log[j] \notin Image(OkEvent)

\* both error messages were shown, then the bar chart was drawn
C5_Witness ==
    /\ pc = "done"
    /\ LogOnly(ErrorEvents) = <<"st.error:auto_failed", "st.error:all_failed">>
    /\ LogHas("ok:bar")

\* the row is one the selected option keeps
Selected(r) ==
    \/ sentiment_option = "all"
    \/ sentiment_option = "positive" /\ r.sentiment_label = "pos"
    \/ sentiment_option = "negative" /\ r.sentiment_label = "neg"
    \/ sentiment_option = "neutral" /\ r.sentiment_label = "neu"

RECURSIVE SumTo(_, _)
SumTo(f, n) == IF n = 0 THEN 0 ELSE f[n] + SumTo(f, n - 1)

\* every word some cell holds
CellWords == UNION { { TokensOfCell[c][j] : j \in 1..Len(TokensOfCell[c]) } : c \in Cells }

\* the number of times each word occurs in each cell
TimesInCell ==
    [c \in Cells |->
        [w \in CellWords |->
            Cardinality({j \in 1..Len(TokensOfCell[c]) : TokensOfCell[c][j] = w})]]

\* the tokens of each row of the table, none for a row that is not selected
SelectedTokens ==
    [i \in 1..Len(df) |->
        IF Selected(df[i]) THEN TokensOfCell[df[i].segmented_words] ELSE <<>>]

\* the number of times w occurs in the selected rows
TimesSelected(w) ==
    SumTo([i \in 1..Len(df) |->
             IF Selected(df[i]) THEN TimesInCell[df[i].segmented_words][w] ELSE 0],
          Len(df))

Pressed == pc # "idle"

\* C6: when the selected category matches no record, or the selected records
\* yield no token, the press ends in a "no data" warning: no exception, no
\* strategy invoked, no font lookup.
C6_NoDataIsTerminalWarning ==
    (Pressed /\ \A i \in 1..Len(df) : SelectedTokens[i] = <<>>) =>
        /\ pc = "done"
        /\ ~exception
        /\ log = IF \E i \in 1..Len(df) : Selected(df[i])
                 THEN <<"st.warning:no_words">>
                 ELSE <<"st.warning:no_rows">>
        /\ \A S \in Strategies : ~LogHas(CallEvent[S])
        /\ ~LogHas("call:get_best_chinese_font")
        /\ table = <<>>
        /\ layout = NoLayout

\* two selected rows, neither holding a token
C6_Witness ==
    /\ pc = "done"
    /\ Len(df) = 2
    /\ \A i \in 1..Len(df) : df[i].sentiment_label = "neu"
    /\ sentiment_option = "neutral"
    /\ log = <<"st.warning:no_words">>

\* the different words of all_words
WordsSeen == { all_words[j] : j \in 1..Len(all_words) }

\* v ranks before w: more occurrences, or as many and met first (a strict total
\* order of the words, so it is enough to compare neighbours)
RanksBefore(occ, first, v, w) ==
    occ[v] > occ[w] \/ (occ[v] = occ[w] /\ first[v] < first[w])

\* r lists the n most frequent words: descending by count, equal counts in the
\* order of first occurrence, every word left out ranking after the last one in
IsRanking(r, n, occ, first) ==
    LET listed == { r[i].word : i \in 1..Len(r) }
    IN  /\ Len(r) = Min2(n, Cardinality(DOMAIN occ))
        /\ Cardinality(listed) = Len(r)
        /\ \A i \in 1..Len(r) : r[i].word \in DOMAIN occ /\ r[i].count = occ[r[i].word]
        /\ \A i \in 1..(Len(r) - 1) : RanksBefore(occ, first, r[i].word, r[i + 1].word)
        /\ \A w \in (DOMAIN occ) \ listed : RanksBefore(occ, first, r[Len(r)].word, w)

\* C7: the top 10 of the summary line and the top 20 of the table list the words
\* in descending order of count, words of equal count in the order of their
\* first occurrence over the selected records; being fixed by the records, the
\* result is the same on every run.
C7_TopNRanking ==
    LogHas("st.info:top10") =>
        LET places == [w \in WordsSeen |->
                         {j \in 1..Len(all_words) : all_words[j] = w}]
            occ == [w \in DOMAIN places |-> Cardinality(places[w])]
            first == [w \in DOMAIN places |->
                        CHOOSE j \in places[w] : \A k \in places[w] : j <= k]
        IN  /\ IsRanking(top_10, Top10, occ, first)
            /\ LogHas("st.dataframe:top20") => IsRanking(table, Top20, occ, first)

\* 31 different words of which two lead by count and the rest tie: the top 10
\* and the top 20 both cut the list
C7_Witness ==
    /\ pc = "done"
    /\ Len(word_freq) > Top20
    /\ Len(top_10) = Top10
    /\ Len(table) = Top20
    /\ top_10[1].count > top_10[2].count
    /\ top_10[2].count > top_10[3].count
    /\ top_10[3].count = top_10[10].count
    /\ top_10[1].word = <<"n">>
    /\ word_freq[1].word # <<"n">>

\* C8: the frequency table is exactly the multiset of the tokens extracted from
\* the records whose sentiment_label is the selected category (all records for
\* "all comments"): each count is the number of occurrences in those records,
\* records not selected contribute nothing, the counts sum to the number of
\* extracted tokens.
C8_TableIsMultisetOfSelected ==
    LogHas("st.success:extracted") =>
        LET total == SumTo([i \in 1..Len(df) |-> Len(SelectedTokens[i])], Len(df))
            listed == { word_freq[k].word : k \in 1..Len(word_freq) }
        IN  /\ \A k \in 1..Len(word_freq) :
                 /\ word_freq[k].count >= 1
                 /\ word_freq[k].word \in CellWords
                 /\ word_freq[k].count = TimesSelected(word_freq[k].word)
            /\ Cardinality(listed) = Len(word_freq)
            /\ \A w \in CellWords \ listed : TimesSelected(w) = 0
            /\ SumTo([k \in 1..Len(word_freq) |-> word_freq[k].count], Len(word_freq))
                 = total
            /\ Len(all_words) = total

\* "positive" selected over a positive row ['n', 't', 'n'] and a negative row of
\* 31 words: the table is n:2, t:1
C8_Witness ==
    /\ Pressed
    /\ sentiment_option = "positive"
    /\ Len(df) = 2
    /\ df[1].sentiment_label = "neg"
    /\ Len(get_words_from_segmented(df[1].segmented_words)) > Top20
    /\ df[2].sentiment_label = "pos"
    /\ word_freq = << [word |-> <<"n">>, count |-> 2], [word |-> <<"t">>, count |-> 1] >>

\* C9: in the manual grid renderer, when all rendered counts are equal every
\* token gets the fixed size 50 and nothing is divided by a zero range; when
\* counts differ every size lies between 20 and 100 and is non-decreasing in
\* the count.
C9_ManualSizes ==
    \A i \in 1..Len(layout) :
        LET a == layout[i]
        IN  /\ a.size.den > 0
            /\ (\A j \in 1..Len(layout) : layout[j].count = a.count) =>
                   a.size = [num |-> FixedSize, den |-> 1]
            /\ (\E j \in 1..Len(layout) : layout[j].count # a.count) =>
                   /\ MinSize * a.size.den <= a.size.num
                   /\ a.size.num <= (MinSize + SizeSpan) * a.size.den
                   /\ \A j \in 1..Len(layout) :
                        layout[j].count <= a.count =>
                            layout[j].size.num * a.size.den
                                <= a.size.num * layout[j].size.den

\* a drawn grid whose counts are 3, 2 and 1: sizes 100, 60 and 20
C9_Witness ==
    /\ LogHas("ok:manual")
    /\ \E i, j, k \in 1..Len(layout) :
         /\ layout[i].count = 3 /\ layout[i].size = [num |-> 200, den |-> 2]
         /\ layout[j].count = 2 /\ layout[j].size = [num |-> 120, den |-> 2]
         /\ layout[k].count = 1 /\ layout[k].size = [num |-> 40, den |-> 2]


---------------------------------------------------------------------------
(* Claims about the order of the fallback chain, checked under SpecFair *)

\* how many times the strategy S was invoked in this press
CallsOf(S) == Len(LogOnly({CallEvent[S]}))

\* event a is in the log, and event b only after it
Before(a, b) ==
    \E i \in 1..Len(log) : log[i] = a /\ \A j \in 1..i : log[j] # b

Finished == pc \in {"done", "crashed"}

\* no strategy is invoked twice, the manual grid is invoked in automatic mode
\* only after the automatic word cloud failed, the bar chart only after the
\* manual grid failed, and a finished press has invoked them exactly then
ChainInOrder ==
    /\ \A S \in Strategies : CallsOf(S) <= 1
    /\ (LogHas("call:auto") /\ LogHas("call:manual")) => Before("fail:auto", "call:manual")
    /\ (generate_mode = "auto" /\ pc = "render") => ~LogHas("call:manual")
    /\ LogHas("call:bar") => Before("fail:manual", "call:bar")
    /\ Finished =>
          /\ LogHas("call:auto") => (LogHas("call:manual") <=> LogHas("fail:auto"))
          /\ LogHas("call:bar") <=> LogHas("fail:manual")

\* C11: the chain advances in order and only on failure: in automatic mode the
\* manual grid is invoked if and only if the automatic word cloud returned
\* failure, in either mode the bar chart is invoked if and only if the manual
\* grid returned failure, each strategy is invoked at most once per press, and
\* after the failure of the automatic word cloud or of the manual grid the next
\* strategy is eventually invoked.
C11_ChainAdvancesOnFailure ==
    /\ []ChainInOrder
    /\ LogHas("fail:auto") ~> LogHas("call:manual")
    /\ LogHas("fail:manual") ~> LogHas("call:bar")

\* a finished press that went through the whole chain
C11_Witness ==
    /\ Finished
    /\ LogOnly(Image(CallEvent) \cup Image(FailEvent) \cup Image(OkEvent)) =
          <<"call:auto", "fail:auto", "call:manual", "fail:manual", "call:bar", "ok:bar">>

---------------------------------------------------------------------------
(* Claims about what the manual grid places, checked under Spec *)

PlacedPairs == { [word |-> layout[i].word, count |-> layout[i].count] : i \in 1..Len(layout) }

TopPairs(n) == LET top == MostCommon(word_freq, n) IN { top[i] : i \in 1..Len(top) }

\* strictly inside the canvas of Width x Height
InsideCanvas(pos) ==
    /\ 0 < pos.x /\ pos.x < Width
    /\ 0 < pos.y.num /\ pos.y.num < Height * pos.y.den

\* C12: for every frequency table and every max_words, the tokens the manual
\* grid places are the max_words tokens with the highest counts (descending by
\* count, ties by first occurrence), each with its own count, and each of them
\* is placed at a distinct grid position strictly inside the canvas.
C12_ManualRendersTopN ==
    layout # NoLayout =>
        /\ PlacedPairs = TopPairs(max_words)
        /\ \A i \in 1..Len(layout) : InsideCanvas(layout[i].pos)
        /\ \A i, j \in 1..Len(layout) : i # j => layout[i].pos # layout[j].pos

=============================================================================
